---- MODULE Spec2Model ----
(***************************************************************************)
(* The itinerary generation handler of netlify/functions/                  *)
(* generate-itinerary.mjs (first handler of the file, lines 9-232): the    *)
(* directive (prompt) construction, the oracle call, cleanJsonString,      *)
(* JSON.parse and cleanItineraryForFrontend, as one state machine per      *)
(* invocation.                                                             *)
(*                                                                         *)
(* JavaScript values are tagged records.  An object is a function from its *)
(* own keys to values; a key that is not in the domain reads as undefined. *)
(* A text is a sequence of tokens: the three-backtick fence, the word      *)
(* json, the line break, prose, and a token standing for the serialization *)
(* of one JSON value.                                                      *)
(***************************************************************************)
EXTENDS Integers, Sequences, FiniteSets, TLC

VARIABLES
    pc,           \* position of the invocation in the handler
    method,       \* req.method
    body,         \* what req.json() yields: [ok, val]
    apiKey,       \* process.env.GEMINI_API_KEY is set
    prompt,       \* the directive, a sequence of text fragments
    reply,        \* how the oracle call ended: [ok, text, msg]
    raw,          \* result.response.text(), a sequence of tokens
    cleaned,      \* geminiResponseText after cleanJsonString
    parsed,       \* parsedItinerary
    final,        \* finalItinerary
    response,     \* the Response returned, NoResponse until then
    trace,        \* the stages run so far, in order
    oracleCalls,  \* number of model.generateContent calls made
    peer,         \* the locals of a second invocation, suspended at an await
    ui            \* the state of the browser components that call the handler

vars == <<pc, method, body, apiKey, prompt, reply, raw, cleaned, parsed, final,
          response, trace, oracleCalls, peer, ui>>

---------------------------------------------------------------------------
(* JavaScript values *)

Undefined == [t |-> "undefined"]
Null == [t |-> "null"]
Bool(b) == [t |-> "bool", b |-> b]
Num(n) == [t |-> "num", n |-> n]
Str(s) == [t |-> "str", s |-> s]
Arr(a) == [t |-> "arr", a |-> a]
Obj(o) == [t |-> "obj", o |-> o]

NoKeys == [k \in {} |-> Null]
EmptyObj == Obj(NoKeys)
EmptyArr == Arr(<<>>)

IsObj(v) == v.t = "obj"
IsArr(v) == v.t = "arr"
IsStr(v) == v.t = "str"
IsNum(v) == v.t = "num"
IsNullish(v) == v.t \in {"undefined", "null"}

\* ToBoolean: undefined, null, false, 0 and "" are falsy.
Truthy(v) ==
    CASE v.t = "undefined" -> FALSE
      [] v.t = "null" -> FALSE
      [] v.t = "bool" -> v.b
      [] v.t = "num" -> v.n # 0
      [] v.t = "str" -> v.s # ""
      [] OTHER -> TRUE

\* a || d
Or(v, d) == IF Truthy(v) THEN v ELSE d

\* v[key] for a value whose property read does not throw: an own key of an
\* object, undefined otherwise (arrays and primitives have no such key).
Get(v, key) ==
    IF IsObj(v) /\ key \in DOMAIN v.o THEN v.o[key] ELSE Undefined

\* o with o[key] = val
SetKey(o, key, val) ==
    [k \in (DOMAIN o) \cup {key} |-> IF k = key THEN val ELSE o[k]]

\* Array.isArray(v) ? v : []
ArrayOrEmpty(v) == IF IsArr(v) THEN v ELSE EmptyArr

\* The outcome of an evaluation that may throw.
Ret(v) == [ok |-> TRUE, val |-> v]
Throw(msg) == [ok |-> FALSE, val |-> Str(msg)]

---------------------------------------------------------------------------
(* cleanItineraryForFrontend, generate-itinerary.mjs lines 149-204.        *)
(* The file is an ES module, so its code is strict: writing a property of  *)
(* a primitive throws a TypeError, as does reading a property of null.     *)
(* A property written on an array is not serialized by JSON.stringify, so  *)
(* an array in an object position comes out as the array it was.           *)

StringKeysTop == {"destination", "estimatedBudget", "travelStyle", "weatherOverview"}
EmergencyKeys == {"Emergency Contacts", "Hospitals", "Embassies"}
WeatherKeys == {"tempRange", "condition", "weatherTip"}
ActivityKeys == {"name", "category", "type", "description", "duration",
                 "location", "cost", "rating", "photos"}

NA == Str("N/A")

\* FillKeys that leaves an own key holding null as it is
FillKeys_KeepNull(o, keys, d) ==
    [k \in (DOMAIN o) \cup keys |->
        IF k \in keys /\ k \notin DOMAIN o THEN d ELSE o[k]]

\* x.k = x.k || d, for every k of keys
FillKeys(o, keys, d) ==
    [k \in (DOMAIN o) \cup keys |->
        IF k \in keys THEN Or(Get(Obj(o), k), d) ELSE o[k]]

\* x.k = Array.isArray(x.k) ? x.k : [], for every k of keys
FillArrays(o, keys) ==
    [k \in (DOMAIN o) \cup keys |->
        IF k \in keys THEN ArrayOrEmpty(Get(Obj(o), k)) ELSE o[k]]

\* The outcome of statements that read and then write properties of x and
\* turn an object into filled: a TypeError when x is null (the read throws)
\* or a primitive (the write throws), x itself when x is an array.
OnObject(x, filled) ==
    IF IsNullish(x) THEN Throw("Cannot read properties of null")
    ELSE IF IsArr(x) THEN Ret(x)
    ELSE IF ~IsObj(x) THEN Throw("Cannot create property on primitive")
    ELSE Ret(filled)

OwnKeys(x) == IF IsObj(x) THEN x.o ELSE NoKeys

\* The result of a map whose callback results are r: the values in the
\* positions of their arguments; the first throw ends the map.
Collect(r) ==
    LET bad == {i \in 1..Len(r) : ~r[i].ok}
    IN  IF bad = {} THEN Ret(Arr([i \in 1..Len(r) |-> r[i].val]))
        ELSE r[CHOOSE i \in bad : \A j \in bad : i <= j]

\* lines 183-194: activity => { ...; return activity; }
cleanActivity(activity) ==
    OnObject(activity, Obj(FillKeys(OwnKeys(activity), ActivityKeys, NA)))

\* cleanActivities without the else branch of line 196
cleanActivities_NoElse(acts) ==
    IF IsArr(acts)
    THEN Collect([i \in 1..Len(acts.a) |-> cleanActivity(acts.a[i])])
    ELSE Ret(acts)

\* lines 182-197
cleanActivities(acts) ==
    IF IsArr(acts)
    THEN Collect([i \in 1..Len(acts.a) |-> cleanActivity(acts.a[i])])
    ELSE Ret(EmptyArr)

\* lines 174-177
cleanWeather(w) == OnObject(w, Obj(FillKeys(OwnKeys(w), WeatherKeys, NA)))

\* lines 168-199: day => { ...; return day; }
cleanDay(day) ==
    IF IsNullish(day) THEN Throw("Cannot read properties of null")
    ELSE IF IsArr(day) THEN Ret(day)
    ELSE IF ~IsObj(day) THEN Throw("Cannot create property on primitive")
    ELSE
      LET w == cleanWeather(Or(Get(day, "dailyWeather"), EmptyObj))
          a == cleanActivities(Get(day, "activities"))
          o1 == SetKey(day.o, "dayNumber", Or(Get(day, "dayNumber"), Num(0)))
          o2 == SetKey(o1, "date", Or(Get(day, "date"), Str("Date N/A")))
          o3 == FillArrays(o2, {"dailyTips"})
          o4 == FillKeys(o3, {"daySummary"}, NA)
      IN  IF ~w.ok THEN w
          ELSE IF ~a.ok THEN a
          ELSE Ret(Obj(SetKey(SetKey(o4, "dailyWeather", w.val),
                              "activities", a.val)))

\* cleanDays that returns the days last to first
cleanDays_Reversed(days) ==
    IF IsArr(days)
    THEN Collect([i \in 1..Len(days.a) |-> cleanDay(days.a[Len(days.a) + 1 - i])])
    ELSE Ret(EmptyArr)

\* lines 167-202
cleanDays(days) ==
    IF IsArr(days)
    THEN Collect([i \in 1..Len(days.a) |-> cleanDay(days.a[i])])
    ELSE Ret(EmptyArr)

\* lines 161-164
cleanEmergency(e) == OnObject(e, Obj(FillArrays(OwnKeys(e), EmergencyKeys)))

\* cleanItineraryForFrontend that sets duration to the number of days
cleanItineraryForFrontend_DurationFromDays(itinerary) ==
    IF ~Truthy(itinerary) THEN Ret(Null)
    ELSE IF IsArr(itinerary) THEN Ret(itinerary)
    ELSE IF ~IsObj(itinerary) THEN Throw("Cannot create property on primitive")
    ELSE
      LET o1 == FillKeys(itinerary.o, StringKeysTop, NA)
          o3 == FillArrays(o1, {"essentialTravelTips"})
          e == cleanEmergency(Or(Get(itinerary, "emergencyInformation"), EmptyObj))
          d == cleanDays(Get(itinerary, "days"))
      IN  IF ~e.ok THEN e
          ELSE IF ~d.ok THEN d
          ELSE Ret(Obj(SetKey(SetKey(SetKey(o3, "duration", Num(Len(d.val.a))),
                                     "emergencyInformation", e.val),
                              "days", d.val)))

cleanItineraryForFrontend(itinerary) ==
    IF ~Truthy(itinerary) THEN Ret(Null)
    ELSE IF IsArr(itinerary) THEN Ret(itinerary)
    ELSE IF ~IsObj(itinerary) THEN Throw("Cannot create property on primitive")
    ELSE
      LET o1 == FillKeys(itinerary.o, StringKeysTop, NA)
          o2 == SetKey(o1, "duration", Or(Get(itinerary, "duration"), Num(0)))
          o3 == FillArrays(o2, {"essentialTravelTips"})
          e == cleanEmergency(Or(Get(itinerary, "emergencyInformation"), EmptyObj))
          d == cleanDays(Get(itinerary, "days"))
      IN  IF ~e.ok THEN e
          ELSE IF ~d.ok THEN d
          ELSE Ret(Obj(SetKey(SetKey(o3, "emergencyInformation", e.val),
                              "days", d.val)))

---------------------------------------------------------------------------
(* Texts, cleanJsonString (lines 138-141) and JSON.parse (line 145) *)

Ch(c) == [ch |-> c]
Doc(v) == [doc |-> v]

\* FENCE is the run of three backticks.
FENCE == Ch("fence")
JSONTAG == Ch("json")
NL == Ch("newline")
PROSE == Ch("Sorry, I cannot help with that.")

IsDoc(tok) == DOMAIN tok = {"doc"}

Opener == <<FENCE, JSONTAG, NL>>
Closer == <<NL, FENCE>>

\* s occurs in text at position i
OccursAt(text, s, i) ==
    /\ i >= 1
    /\ i + Len(s) - 1 <= Len(text)
    /\ \A k \in 1..Len(s) : text[i + k - 1] = s[k]

\* The positions at which the regular expression of line 139 can match: the
\* fence, the tag and a line break at i, and a line break and a fence
\* somewhere after them.
MatchStarts(text) ==
    {i \in 1..Len(text) :
        /\ OccursAt(text, Opener, i)
        /\ \E j \in (i + Len(Opener))..Len(text) : OccursAt(text, Closer, j)}

Least(S) == CHOOSE i \in S : \A j \in S : i <= j

\* FirstGroup with a greedy quantifier: up to the last closing fence
FirstGroup_Greedy(text) ==
    LET i == Least(MatchStarts(text))
        from == i + Len(Opener)
        closers == {k \in from..Len(text) : OccursAt(text, Closer, k)}
        j == CHOOSE k \in closers : \A m \in closers : m <= k
    IN  SubSeq(text, from, j - 1)

\* The capture group of the leftmost match: the lazy quantifier stops at the
\* first closing fence after the opening one.
FirstGroup(text) ==
    LET i == Least(MatchStarts(text))
        from == i + Len(Opener)
        j == Least({k \in from..Len(text) : OccursAt(text, Closer, k)})
    IN  SubSeq(text, from, j - 1)

\* cleanJsonString that strips nothing
cleanJsonString_NoStrip(jsonString) == jsonString

\* jsonMatch ? jsonMatch[1] : jsonString
cleanJsonString(jsonString) ==
    IF MatchStarts(jsonString) = {} THEN jsonString ELSE FirstGroup(jsonString)

\* text without its leading and trailing white space
RECURSIVE Trim(_)
Trim(text) ==
    IF text = <<>> THEN text
    ELSE IF Head(text) = NL THEN Trim(Tail(text))
    ELSE IF text[Len(text)] = NL THEN Trim(SubSeq(text, 1, Len(text) - 1))
    ELSE text

\* JSON.parse that yields an empty object for a text that is not JSON
JSONparse_Lenient(text) ==
    LET core == Trim(text)
    IN  IF Len(core) = 1 /\ IsDoc(core[1]) THEN Ret(core[1].doc)
        ELSE Ret(EmptyObj)

\* JSON.parse: the value of a text that is one JSON value, white space
\* around it allowed; a SyntaxError on any other text.
JSONparse(text) ==
    LET core == Trim(text)
    IN  IF Len(core) = 1 /\ IsDoc(core[1]) THEN Ret(core[1].doc)
        ELSE IF core = <<>> THEN Throw("Unexpected end of JSON input")
        ELSE Throw("Unexpected token in JSON")

---------------------------------------------------------------------------
(* The directive, lines 17-108.  A directive is the sequence of the text   *)
(* fragments appended to prompt: the constant pieces of the template       *)
(* literals and, as fragments of their own, the interpolated values.       *)

RECURSIVE JoinStr(_, _)
\* ToString of a value, as a template literal or Array.prototype.join
\* applies it; elem says that v is an array element being joined, which
\* renders null and undefined as the empty string.
ToStr(v, elem) ==
    CASE v.t = "undefined" -> IF elem THEN "" ELSE "undefined"
      [] v.t = "null" -> IF elem THEN "" ELSE "null"
      [] v.t = "bool" -> IF v.b THEN "true" ELSE "false"
      [] v.t = "num" -> ToString(v.n)
      [] v.t = "str" -> v.s
      [] v.t = "arr" -> JoinStr(v.a, ",")
      [] OTHER -> "[object Object]"

\* a.join(sep)
JoinStr(a, sep) ==
    IF a = <<>> THEN ""
    ELSE IF Len(a) = 1 THEN ToStr(a[1], TRUE)
    ELSE ToStr(a[1], TRUE) \o sep \o JoinStr(Tail(a), sep)

Interp(v) == ToStr(v, FALSE)

IntroTrip == "Generate a highly detailed travel itinerary for a trip to "
IntroFor == " for "
IntroDays == " days."
StylePrefers == " The user prefers a "
StyleTrip == " style trip."
StyleInfer == " Please infer a suitable travel style based on the destination and common travel preferences (e.g., \"Romantic\", \"Cultural\", \"Adventurous\", \"Moderate\")."
InterestsInclude == " User interests include: "
Period == "."
BudgetIs == " Budget: "
BudgetInfer == " Please provide a general estimated budget range for the entire trip (e.g., \"$1000 - $2000 USD\", \"Low\", \"Medium\", \"High\")."
GroupSizeIs == " Group size: "
People == " people."
AccommodationIs == " Preferred accommodation: "
StartingOn == " Starting on: "
StartingTail == ". Ensure all daily dates are correctly calculated from this start date."
StartsAround == " The trip starts on a date around "
StartsAroundTail == ". Ensure all daily dates are correctly calculated from this."
\* today's date as lines 48-49 format it
DefaultStartDate == "YYYY-MM-DD"
SpecificRequestsAre == " Specific requests: "
IntroQuery == "Create a highly detailed travel itinerary based on this natural language request: "
\* the template literal of lines 72-108, abridged
SchemaSuffix == " Respond in a strict JSON format. [...] Do NOT leave any field as \"N/A\", null, or empty. [...] \"estimatedBudget\": (string, a realistic total budget estimate [...]) [...] \"daySummary\": ([...] MUST be populated.)"

\* lines 30-32
InterestsClause(interests) ==
    IF ~Truthy(interests) THEN Ret(<<>>)
    ELSE IF IsArr(interests) THEN
        IF Len(interests.a) > 0
        THEN Ret(<<InterestsInclude, JoinStr(interests.a, ", "), Period>>)
        ELSE Ret(<<>>)
    ELSE IF IsStr(interests) THEN Throw("preferences.interests.join is not a function")
    ELSE IF IsObj(interests) /\ IsNum(Get(interests, "length"))
            /\ Get(interests, "length").n > 0
        THEN Throw("preferences.interests.join is not a function")
    ELSE Ret(<<>>)

\* PreferencesPrompt with the budget clause of line 34 appended whether or
\* not a budget is given
PreferencesPrompt_BudgetAlways(preferences) ==
    LET P(k) == Get(preferences, k)
    IN  Ret(<<IntroTrip, Interp(P("destination")), IntroFor,
              Interp(P("duration")), IntroDays,
              BudgetIs, Interp(P("budget")), Period>>)

\* PreferencesPrompt that appends nothing for an absent travelStyle, budget
\* or startDate
PreferencesPrompt_OmitAbsent(preferences) ==
    LET P(k) == Get(preferences, k)
        interests == InterestsClause(P("interests"))
        Clause(k, open, close) ==
            IF Truthy(P(k)) THEN <<open, Interp(P(k)), close>> ELSE <<>>
    IN  IF ~interests.ok THEN interests
        ELSE Ret(
            <<IntroTrip, Interp(P("destination")), IntroFor,
              Interp(P("duration")), IntroDays>>
            \o Clause("travelStyle", StylePrefers, StyleTrip)
            \o interests.val
            \o Clause("budget", BudgetIs, Period)
            \o Clause("groupSize", GroupSizeIs, People)
            \o Clause("accommodation", AccommodationIs, Period)
            \o Clause("startDate", StartingOn, StartingTail)
            \o Clause("specificRequests", SpecificRequestsAre, Period))

\* lines 21-54: the user-derived part of the directive of a structured request
PreferencesPrompt(preferences) ==
    LET P(k) == Get(preferences, k)
        interests == InterestsClause(P("interests"))
    IN  IF ~interests.ok THEN interests
        ELSE Ret(
            <<IntroTrip, Interp(P("destination")), IntroFor,
              Interp(P("duration")), IntroDays>>
            \o (IF Truthy(P("travelStyle"))
                THEN <<StylePrefers, Interp(P("travelStyle")), StyleTrip>>
                ELSE <<StyleInfer>>)
            \o interests.val
            \o (IF Truthy(P("budget"))
                THEN <<BudgetIs, Interp(P("budget")), Period>>
                ELSE <<BudgetInfer>>)
            \o (IF Truthy(P("groupSize"))
                THEN <<GroupSizeIs, Interp(P("groupSize")), People>>
                ELSE <<>>)
            \o (IF Truthy(P("accommodation"))
                THEN <<AccommodationIs, Interp(P("accommodation")), Period>>
                ELSE <<>>)
            \o (IF Truthy(P("startDate"))
                THEN <<StartingOn, Interp(P("startDate")), StartingTail>>
                ELSE <<StartsAround, DefaultStartDate, StartsAroundTail>>)
            \o (IF Truthy(P("specificRequests"))
                THEN <<SpecificRequestsAre, Interp(P("specificRequests")), Period>>
                ELSE <<>>))

\* line 57
QueryPrompt(query) == <<IntroQuery, Interp(query)>>

\* lines 20-108: which branch the request body takes, and the directive.
\* kind is "prompt", "invalid" (the 400 response) or "throw".
Branch(kind, val) == [kind |-> kind, val |-> val]

\* BuildDirective that looks at naturalLanguageQuery first
BuildDirective_QueryFirst(requestBody) ==
    IF IsNullish(requestBody)
    THEN Branch("throw", "Cannot read properties of null (reading 'preferences')")
    ELSE IF Truthy(Get(requestBody, "naturalLanguageQuery")) THEN
        Branch("prompt",
               QueryPrompt(Get(requestBody, "naturalLanguageQuery"))
               \o <<SchemaSuffix>>)
    ELSE IF Truthy(Get(requestBody, "preferences")) THEN
        LET r == PreferencesPrompt(Get(requestBody, "preferences"))
        IN  IF r.ok THEN Branch("prompt", r.val \o <<SchemaSuffix>>)
            ELSE Branch("throw", r.val.s)
    ELSE Branch("invalid", "")

\* BuildDirective that appends the schema suffix to structured requests only
BuildDirective_NoSuffixForQuery(requestBody) ==
    IF IsNullish(requestBody)
    THEN Branch("throw", "Cannot read properties of null (reading 'preferences')")
    ELSE IF Truthy(Get(requestBody, "preferences")) THEN
        LET r == PreferencesPrompt(Get(requestBody, "preferences"))
        IN  IF r.ok THEN Branch("prompt", r.val \o <<SchemaSuffix>>)
            ELSE Branch("throw", r.val.s)
    ELSE IF Truthy(Get(requestBody, "naturalLanguageQuery")) THEN
        Branch("prompt", QueryPrompt(Get(requestBody, "naturalLanguageQuery")))
    ELSE Branch("invalid", "")

BuildDirective(requestBody) ==
    IF IsNullish(requestBody)
    THEN Branch("throw", "Cannot read properties of null (reading 'preferences')")
    ELSE IF Truthy(Get(requestBody, "preferences")) THEN
        LET r == PreferencesPrompt(Get(requestBody, "preferences"))
        IN  IF r.ok THEN Branch("prompt", r.val \o <<SchemaSuffix>>)
            ELSE Branch("throw", r.val.s)
    ELSE IF Truthy(Get(requestBody, "naturalLanguageQuery")) THEN
        Branch("prompt",
               QueryPrompt(Get(requestBody, "naturalLanguageQuery"))
               \o <<SchemaSuffix>>)
    ELSE Branch("invalid", "")

\* The words of interest a fragment of the directive contains.
Topics(f) ==
    CASE f \in {BudgetIs, BudgetInfer, "budget"} -> {"budget"}
      [] f = SchemaSuffix -> {"budget", "null"}
      [] f = AccommodationIs -> {"accommodation"}
      [] f = InterestsInclude -> {"interests"}
      [] f = "null" -> {"null"}
      [] f = "undefined" -> {"undefined"}
      [] OTHER -> {}

Mentions(directive, word) ==
    \E i \in 1..Len(directive) : word \in Topics(directive[i])

---------------------------------------------------------------------------
(* Requests *)

OptionalPrefs == {"travelStyle", "budget", "groupSize", "accommodation",
                  "startDate", "specificRequests"}

\* a populated value of each preference field
PrefValue(k) ==
    CASE k = "destination" -> Str("Lisbon")
      [] k = "duration" -> Num(2)
      [] k = "travelStyle" -> Str("relaxed")
      [] k = "budget" -> Str("budget")
      [] k = "groupSize" -> Num(1)
      [] k = "accommodation" -> Str("hostel")
      [] k = "startDate" -> Str("2025-07-01")
      [] k = "specificRequests" -> Str("vegetarian food")
      [] OTHER -> Undefined

InterestsChoices ==
    {Undefined, EmptyArr, Arr(<<Str("Food & Dining"), Str("Nightlife")>>)}

\* the preferences object with the given own keys populated
MkPrefs(keys, interests) ==
    Obj([k \in keys \cup (IF interests = Undefined THEN {} ELSE {"interests"}) |->
            IF k = "interests" THEN interests ELSE PrefValue(k)])

\* destination, duration and any combination of the optional fields
FormPrefs ==
    {MkPrefs({"destination", "duration"} \cup S, i) :
        S \in SUBSET OptionalPrefs, i \in InterestsChoices}

LisbonPrefs ==
    MkPrefs({"destination", "duration", "travelStyle", "budget", "groupSize",
             "accommodation"}, EmptyArr)

OnlyDestinationAndDuration == MkPrefs({"destination", "duration"}, Undefined)

\* preferences that the form would not send
OddPrefs ==
    {EmptyObj,
     MkPrefs({"duration"}, Undefined),
     Obj([destination |-> Str(""), duration |-> Num(2)]),
     Obj([destination |-> Null, duration |-> Num(2)]),
     Obj([destination |-> Str("Lisbon"), duration |-> Num(2),
          interests |-> Str("food")]),
     Obj([destination |-> Str("Lisbon"), duration |-> Num(2),
          groupSize |-> Num(0), budget |-> Str("")]),
     Str("Lisbon"), Arr(<<>>), Bool(TRUE)}

Query == Str("A relaxed weekend in Rome")

WithPrefs(p) == Obj([preferences |-> p])
WithQuery(q) == Obj([naturalLanguageQuery |-> q])
WithBoth(p, q) == Obj([preferences |-> p, naturalLanguageQuery |-> q])

\* the values req.json() can resolve to
RequestBodies ==
    {WithPrefs(p) : p \in FormPrefs \cup OddPrefs}
    \cup {WithPrefs(Null), WithPrefs(Str("")), WithPrefs(Bool(FALSE))}
    \cup {WithQuery(Query), WithQuery(Str("")), WithQuery(Null)}
    \cup {WithBoth(p, q) : p \in {LisbonPrefs, EmptyObj, Null, Str("")},
                           q \in {Query, Str("")}}
    \cup {EmptyObj, Obj([query |-> Query]), Null, Num(5), Str("Lisbon"),
          Arr(<<>>)}

\* req.json(): a value, or a SyntaxError when the body is not JSON
BodyOutcomes ==
    {Ret(b) : b \in RequestBodies} \cup {Throw("Unexpected token in JSON")}

Methods == {"POST", "GET"}

---------------------------------------------------------------------------
(* Oracle replies *)

LisbonTree ==
    Obj([destination |-> Str("Lisbon"), duration |-> Num(2),
         days |-> Arr(<<Obj([dayNumber |-> Num(1), activities |-> EmptyArr])>>)])

DayN(n) == Obj([dayNumber |-> Num(n), activities |-> EmptyArr])

\* the JSON values the oracle's text carries in the handler specification
ReplyTrees ==
    {LisbonTree, EmptyObj, Null, Num(7), Num(0), Str("hi"), EmptyArr,
     Obj([destination |-> Str("Rome"), days |-> Arr(<<DayN(3), DayN(1), DayN(2)>>)]),
     Obj([destination |-> Str("Rome"), days |-> Arr(<<Null>>)]),
     Obj([destination |-> Str("Rome"), emergencyInformation |-> Str("112")]),
     Obj([destination |-> Str("Rome"), days |-> Str("none")])}

\* the ways the oracle wraps a payload
Wrappings(tok) ==
    {<<tok>>,
     <<NL, tok, NL>>,
     Opener \o <<tok>> \o Closer,
     <<PROSE, NL>> \o Opener \o <<tok>> \o Closer \o <<NL, PROSE>>,
     <<FENCE, NL, tok>> \o Closer}

OracleTexts ==
    UNION {Wrappings(Doc(v)) : v \in ReplyTrees}
    \cup Wrappings(PROSE) \cup {<<>>}

\* model.generateContent and result.response.text(): a text, or an error
\* (transport failure, quota, or a blocked response)
OracleOutcomes ==
    {[ok |-> TRUE, text |-> x, msg |-> ""] : x \in OracleTexts}
    \cup {[ok |-> FALSE, text |-> <<>>, msg |-> m] :
            m \in {"fetch failed", "429 Too Many Requests",
                   "Response was blocked due to SAFETY"}}

---------------------------------------------------------------------------
(* The handler, lines 9-232 *)

Stages == <<"build", "oracle", "sanitize", "parse", "normalize">>

NoReply == [ok |-> FALSE, text |-> <<>>, msg |-> ""]

\* no second invocation
NoPeer == [pc |-> "none"]

\* no browser component
NoUi == [none |-> TRUE]

NoResponse == [status |-> 0, ctype |-> "", json |-> FALSE, body |-> Undefined]

\* new Response(text, { status })
TextResponse(status, text) ==
    [status |-> status, ctype |-> "text/plain;charset=UTF-8", json |-> FALSE,
     body |-> Str(text)]

\* new Response(JSON.stringify(v), { headers: { 'Content-Type': 'application/json' }, status })
JsonResponse(status, v) ==
    [status |-> status, ctype |-> "application/json", json |-> TRUE, body |-> v]

\* lines 61-66
InvalidInputResponse ==
    JsonResponse(400, Obj([error |->
        Str("Invalid input format. Please provide valid preferences or a natural language query.")]))

\* CatchResponse that puts the exception's message in the error field
CatchResponse_Echo(msg) ==
    JsonResponse(500, Obj([error |-> Str(msg), details |-> Str(msg)]))

\* lines 215-231: the catch block
CatchResponse(msg) ==
    JsonResponse(500, Obj([error |-> Str("Failed to generate itinerary. Please try again."),
                           details |-> Str(msg)]))

\* return from the handler with response r
Return(r) ==
    /\ response' = r
    /\ pc' = "done"

\* CheckMethod that lets every method through
CheckMethod_AnyMethod ==
    /\ pc = "method"
    /\ pc' = "body"
    /\ UNCHANGED <<ui, peer, method, body, apiKey, prompt, reply, raw, cleaned, parsed, final,
                   response, trace, oracleCalls>>

\* lines 10-12
CheckMethod ==
    /\ pc = "method"
    /\ IF method # "POST"
       THEN Return(TextResponse(405, "Method Not Allowed"))
       ELSE pc' = "body" /\ UNCHANGED response
    /\ UNCHANGED <<ui, peer, method, body, apiKey, prompt, reply, raw, cleaned, parsed, final,
                   trace, oracleCalls>>

\* line 15
ReadBody ==
    /\ pc = "body"
    /\ IF body.ok
       THEN pc' = "build" /\ UNCHANGED response
       ELSE Return(CatchResponse(body.val.s))
    /\ UNCHANGED <<ui, peer, method, body, apiKey, prompt, reply, raw, cleaned, parsed, final,
                   trace, oracleCalls>>

\* lines 17-108
BuildPrompt ==
    /\ pc = "build"
    /\ LET b == BuildDirective(body.val)
       IN  CASE b.kind = "prompt" ->
                  /\ prompt' = b.val
                  /\ trace' = Append(trace, "build")
                  /\ pc' = "key"
                  /\ UNCHANGED response
             [] b.kind = "invalid" ->
                  /\ Return(InvalidInputResponse)
                  /\ UNCHANGED <<prompt, trace>>
             [] OTHER ->
                  /\ Return(CatchResponse(b.val))
                  /\ trace' = IF IsNullish(body.val) THEN trace
                              ELSE Append(trace, "build")
                  /\ UNCHANGED prompt
    /\ UNCHANGED <<ui, peer, method, body, apiKey, reply, raw, cleaned, parsed, final, oracleCalls>>

\* CheckKey that goes on to the oracle call without a key
CheckKey_Skip ==
    /\ pc = "key"
    /\ pc' = "oracle"
    /\ UNCHANGED <<ui, peer, method, body, apiKey, prompt, reply, raw, cleaned, parsed, final,
                   response, trace, oracleCalls>>

\* lines 111-115
CheckKey ==
    /\ pc = "key"
    /\ IF apiKey
       THEN pc' = "oracle" /\ UNCHANGED response
       ELSE Return(TextResponse(500, "Server configuration error: API Key not set."))
    /\ UNCHANGED <<ui, peer, method, body, apiKey, prompt, reply, raw, cleaned, parsed, final,
                   trace, oracleCalls>>

\* CallOracle that calls the oracle a second time when the first call failed
CallOracle_Retry ==
    /\ pc = "oracle"
    /\ oracleCalls' = oracleCalls + 1
    /\ trace' = IF oracleCalls = 0 THEN Append(trace, "oracle") ELSE trace
    /\ reply' \in OracleOutcomes
    /\ IF reply'.ok
       THEN raw' = reply'.text /\ pc' = "sanitize" /\ UNCHANGED response
       ELSE IF oracleCalls = 0
       THEN pc' = "oracle" /\ UNCHANGED <<raw, response>>
       ELSE Return(CatchResponse(reply'.msg)) /\ UNCHANGED raw
    /\ UNCHANGED <<ui, peer, method, body, apiKey, prompt, cleaned, parsed, final>>

\* lines 117-135
CallOracle ==
    /\ pc = "oracle"
    /\ oracleCalls' = oracleCalls + 1
    /\ trace' = Append(trace, "oracle")
    /\ reply' \in OracleOutcomes
    /\ IF reply'.ok
       THEN raw' = reply'.text /\ pc' = "sanitize" /\ UNCHANGED response
       ELSE Return(CatchResponse(reply'.msg)) /\ UNCHANGED raw
    /\ UNCHANGED <<ui, peer, method, body, apiKey, prompt, cleaned, parsed, final>>

\* Sanitize with the oracle's text kept in a variable of the module, which
\* holds the text of the invocation that wrote it last
Sanitize_SharedText ==
    /\ pc = "sanitize"
    /\ cleaned' = cleanJsonString(IF peer # NoPeer /\ peer.raw # <<>>
                                  THEN peer.raw ELSE raw)
    /\ trace' = Append(trace, "sanitize")
    /\ pc' = "parse"
    /\ UNCHANGED <<ui, peer, method, body, apiKey, prompt, reply, raw, parsed, final, response,
                   oracleCalls>>

\* line 142
Sanitize ==
    /\ pc = "sanitize"
    /\ cleaned' = cleanJsonString(raw)
    /\ trace' = Append(trace, "sanitize")
    /\ pc' = "parse"
    /\ UNCHANGED <<ui, peer, method, body, apiKey, prompt, reply, raw, parsed, final, response,
                   oracleCalls>>

\* Parse that goes on to normalize an empty object when the text is not JSON
Parse_Continue ==
    /\ pc = "parse"
    /\ trace' = Append(trace, "parse")
    /\ LET r == JSONparse(cleaned)
       IN  parsed' = (IF r.ok THEN r.val ELSE EmptyObj)
    /\ pc' = "normalize"
    /\ UNCHANGED <<ui, peer, method, body, apiKey, prompt, reply, raw, cleaned, final,
                   response, oracleCalls>>

\* line 145
Parse ==
    /\ pc = "parse"
    /\ trace' = Append(trace, "parse")
    /\ LET r == JSONparse(cleaned)
       IN  IF r.ok
           THEN parsed' = r.val /\ pc' = "normalize" /\ UNCHANGED response
           ELSE Return(CatchResponse(r.val.s)) /\ UNCHANGED parsed
    /\ UNCHANGED <<ui, peer, method, body, apiKey, prompt, reply, raw, cleaned, final, oracleCalls>>

\* line 206
Normalize ==
    /\ pc = "normalize"
    /\ trace' = Append(trace, "normalize")
    /\ LET r == cleanItineraryForFrontend(parsed)
       IN  IF r.ok
           THEN final' = r.val /\ pc' = "respond" /\ UNCHANGED response
           ELSE Return(CatchResponse(r.val.s)) /\ UNCHANGED final
    /\ UNCHANGED <<ui, peer, method, body, apiKey, prompt, reply, raw, cleaned, parsed, oracleCalls>>

\* lines 210-213
Respond ==
    /\ pc = "respond"
    /\ Return(JsonResponse(200, final))
    /\ UNCHANGED <<ui, peer, method, body, apiKey, prompt, reply, raw, cleaned, parsed, final,
                   trace, oracleCalls>>

Init ==
    /\ pc = "method"
    /\ method \in Methods
    /\ body \in BodyOutcomes
    /\ apiKey \in BOOLEAN
    /\ prompt = <<>>
    /\ reply = NoReply
    /\ raw = <<>>
    /\ cleaned = <<>>
    /\ parsed = Undefined
    /\ final = Undefined
    /\ response = NoResponse
    /\ trace = <<>>
    /\ oracleCalls = 0
    /\ peer = NoPeer
    /\ ui = NoUi

Next ==
    \/ CheckMethod
    \/ ReadBody
    \/ BuildPrompt
    \/ CheckKey
    \/ CallOracle
    \/ Sanitize
    \/ Parse
    \/ Normalize
    \/ Respond

Spec == Init /\ [][Next]_vars

---------------------------------------------------------------------------
(* The normalizer on its own: the handler from the point where JSON.parse  *)
(* has returned, over a wider set of parsed values than Spec draws.        *)

MaxDays == 3
MaxActs == 3

TopKeys == StringKeysTop \cup
    {"duration", "essentialTravelTips", "emergencyInformation", "days"}
DayKeys == {"dayNumber", "date", "dailyWeather", "dailyTips", "activities",
            "daySummary"}

\* the object with own keys `present` of the keys of vals; with nulls, the
\* other keys are own keys holding null, otherwise they are absent
Pick(vals, present, nulls) ==
    Obj([k \in (IF nulls THEN DOMAIN vals ELSE present) |->
            IF k \in present THEN vals[k] ELSE Null])

ActValues == [k \in ActivityKeys |-> Str(k \o " of A")]
FullActivity == Obj(ActValues)
NamedActivity(n) == Obj([name |-> Str(n), cost |-> Str("Free")])

EmergencyValues == [k \in EmergencyKeys |-> Arr(<<Str("112")>>)]
FullEmergency == Obj(EmergencyValues)

WeatherValues == [k \in WeatherKeys |-> Str("Sunny")]
FullWeather == Obj(WeatherValues)

DayValues ==
    [k \in DayKeys |->
        CASE k = "dayNumber" -> Num(1)
          [] k = "date" -> Str("Thursday, December 26th, 2024")
          [] k = "dailyWeather" -> FullWeather
          [] k = "dailyTips" -> Arr(<<Str("Wear comfortable shoes")>>)
          [] k = "activities" -> Arr(<<FullActivity>>)
          [] OTHER -> Str("Explore iconic landmarks.")]
FullDay == Obj(DayValues)

TopValues ==
    [k \in TopKeys |->
        CASE k = "duration" -> Num(3)
          [] k = "essentialTravelTips" -> Arr(<<Str("Learn a few phrases")>>)
          [] k = "emergencyInformation" -> FullEmergency
          [] k = "days" -> Arr(<<FullDay>>)
          [] OTHER -> Str(k \o " of Rome")]
FullTree == Obj(TopValues)

WithKey(v, k, x) == Obj(SetKey(v.o, k, x))

\* every subset of the fields of one level present, the other levels full
SubsetTrees ==
    {Pick(TopValues, S, n) : S \in SUBSET TopKeys, n \in BOOLEAN}
    \cup {WithKey(FullTree, "emergencyInformation", Pick(EmergencyValues, S, n)) :
            S \in SUBSET EmergencyKeys, n \in BOOLEAN}
    \cup {WithKey(FullTree, "days", Arr(<<Pick(DayValues, S, n)>>)) :
            S \in SUBSET DayKeys, n \in BOOLEAN}
    \cup {WithKey(FullTree, "days",
            Arr(<<WithKey(FullDay, "dailyWeather", Pick(WeatherValues, S, n))>>)) :
            S \in SUBSET WeatherKeys, n \in BOOLEAN}
    \cup {WithKey(FullTree, "days",
            Arr(<<WithKey(FullDay, "activities",
                          Arr(<<Pick(ActValues, S, n)>>))>>)) :
            S \in SUBSET ActivityKeys, n \in BOOLEAN}

\* fields present with the falsy value of their type
FalsyTree ==
    Obj([destination |-> Str(""), duration |-> Num(0), estimatedBudget |-> Str(""),
         days |-> Arr(<<Obj([dayNumber |-> Num(0), date |-> Str(""),
                             activities |-> Arr(<<Obj([name |-> Str("")])>>)])>>)])

SeqsUpTo(S, n) == UNION {[1..m -> S] : m \in 0..n}

DayPool == {DayN(n) : n \in 1..MaxDays} \cup {Obj([date |-> Str("someday")])}
ActPool == {NamedActivity("A"), NamedActivity("B"), Obj([cost |-> Str("Free")])}

\* days, and the activities of a day, in every order
OrderTrees ==
    {Obj([destination |-> Str("Rome"), duration |-> Num(2), days |-> Arr(ds)]) :
        ds \in SeqsUpTo(DayPool, MaxDays)}
    \cup {Obj([destination |-> Str("Rome"),
               days |-> Arr(<<Obj([dayNumber |-> Num(1), activities |-> Arr(as)])>>)]) :
            as \in SeqsUpTo(ActPool, MaxActs)}

\* numbers given as strings, activity types in and out of the schema's list,
\* a destination that is not a string
DriftTrees ==
    {Obj([destination |-> Str("Rome"), duration |-> Str("3"),
          days |-> Arr(<<Obj([dayNumber |-> Str("2"), activities |-> EmptyArr])>>)]),
     Obj([destination |-> Num(42), duration |-> Num(1), days |-> EmptyArr])}
    \cup {Obj([destination |-> Str("Rome"), duration |-> Num(1),
               days |-> Arr(<<Obj([dayNumber |-> Num(1),
                                   activities |-> Arr(<<Obj([name |-> Str("Walk"),
                                                             type |-> Str(t)])>>)])>>)]) :
            t \in {"indoor", "outdoor", "flexible", "walking", ""}}

NormTrees ==
    SubsetTrees \cup OrderTrees \cup ReplyTrees \cup {FalsyTree} \cup DriftTrees

InitNorm ==
    /\ pc = "normalize"
    /\ method = "POST"
    /\ body = Ret(WithPrefs(LisbonPrefs))
    /\ apiKey = TRUE
    /\ prompt = BuildDirective(body.val).val
    /\ parsed \in NormTrees
    /\ raw = <<Doc(parsed)>>
    /\ reply = [ok |-> TRUE, text |-> raw, msg |-> ""]
    /\ cleaned = raw
    /\ final = Undefined
    /\ response = NoResponse
    /\ trace = <<"build", "oracle", "sanitize", "parse">>
    /\ oracleCalls = 1
    /\ peer = NoPeer
    /\ ui = NoUi

NextNorm == Normalize \/ Respond

SpecNorm == InitNorm /\ [][NextNorm]_vars

---------------------------------------------------------------------------
(* The sanitizer on its own: the handler from the point where the oracle   *)
(* has answered, over the texts made of up to MaxSegs pieces.              *)

MaxSegs == 5

Segments == {Opener, Closer, <<NL>>, <<FENCE>>, <<PROSE>>, <<Doc(LisbonTree)>>}

RECURSIVE TextsOf(_)
TextsOf(n) ==
    IF n = 0 THEN {<<>>}
    ELSE LET T == TextsOf(n - 1)
         IN  T \cup {x \o g : x \in T, g \in Segments}

InitSan ==
    /\ pc = "sanitize"
    /\ method = "POST"
    /\ body = Ret(WithPrefs(LisbonPrefs))
    /\ apiKey = TRUE
    /\ prompt = BuildDirective(body.val).val
    /\ raw \in TextsOf(MaxSegs)
    /\ reply = [ok |-> TRUE, text |-> raw, msg |-> ""]
    /\ cleaned = <<>>
    /\ parsed = Undefined
    /\ final = Undefined
    /\ response = NoResponse
    /\ trace = <<"build", "oracle">>
    /\ oracleCalls = 1
    /\ peer = NoPeer
    /\ ui = NoUi

NextSan == Sanitize \/ Parse \/ Normalize \/ Respond

SpecSan == InitSan /\ [][NextSan]_vars

---------------------------------------------------------------------------
(* Two invocations in one process.  The handler keeps all its state in     *)
(* locals of the async function; the process has process.env, which the    *)
(* handler only reads.  An invocation runs until it awaits (req.json(),    *)
(* generateContent) or returns, and the event loop may then run the other  *)
(* one: the variables hold the locals of the invocation that is running    *)
(* and peer those of the one that is suspended.                            *)

\* the locals of the running invocation
Frame ==
    [pc |-> pc, method |-> method, body |-> body, prompt |-> prompt,
     reply |-> reply, raw |-> raw, cleaned |-> cleaned, parsed |-> parsed,
     final |-> final, response |-> response, trace |-> trace,
     oracleCalls |-> oracleCalls]

\* the locals of an invocation that has not started
NewFrame(m, b) ==
    [pc |-> "method", method |-> m, body |-> b, prompt |-> <<>>,
     reply |-> NoReply, raw |-> <<>>, cleaned |-> <<>>, parsed |-> Undefined,
     final |-> Undefined, response |-> NoResponse, trace |-> <<>>,
     oracleCalls |-> 0]

\* the running invocation awaits or has returned, and the event loop runs
\* the other invocation
Resume ==
    /\ peer # NoPeer
    /\ pc \in {"method", "body", "oracle", "done"}
    /\ peer.pc # "done"
    /\ peer' = Frame
    /\ pc' = peer.pc
    /\ method' = peer.method
    /\ body' = peer.body
    /\ prompt' = peer.prompt
    /\ reply' = peer.reply
    /\ raw' = peer.raw
    /\ cleaned' = peer.cleaned
    /\ parsed' = peer.parsed
    /\ final' = peer.final
    /\ response' = peer.response
    /\ trace' = peer.trace
    /\ oracleCalls' = peer.oracleCalls
    /\ UNCHANGED <<apiKey, ui>>

\* the requests of the two invocations
PairBodies ==
    {Ret(WithPrefs(LisbonPrefs)), Ret(WithQuery(Query)), Ret(EmptyObj),
     Throw("Unexpected token in JSON")}

InitPair ==
    /\ pc = "method"
    /\ method \in Methods
    /\ body \in PairBodies
    /\ apiKey \in BOOLEAN
    /\ prompt = <<>>
    /\ reply = NoReply
    /\ raw = <<>>
    /\ cleaned = <<>>
    /\ parsed = Undefined
    /\ final = Undefined
    /\ response = NoResponse
    /\ trace = <<>>
    /\ oracleCalls = 0
    /\ peer \in {NewFrame(m, b) : m \in Methods, b \in PairBodies}
    /\ ui = NoUi

NextPair == Next \/ Resume

SpecPair == InitPair /\ [][NextPair]_vars

---------------------------------------------------------------------------
(* The browser client: generateItineraryFromPreferences of                 *)
(* src/services/geminiService.ts and the catch of handleSubmit in          *)
(* src/components/PlanningForm.tsx, as functions of the handler's Response *)

\* response.ok
ResponseOk(r) == r.status >= 200 /\ r.status <= 299

\* await response.json(): the body's value, a SyntaxError on a text body
responseJson(r) ==
    IF r.json THEN Ret(r.body) ELSE Throw("Unexpected token in JSON")

\* `HTTP error! status: ${response.status}`
HttpError(r) == Str("HTTP error! status: " \o ToString(r.status))

\* geminiService.ts lines 5-25: the plan returned, or the error thrown
generateItineraryFromPreferences(r) ==
    LET data == responseJson(r)
    IN  IF ResponseOk(r) \/ ~data.ok THEN data
        ELSE Throw(Interp(Or(Get(data.val, "error"), HttpError(r))))

\* the text handleSubmit shows when generateItineraryFromPreferences throws
AlertText == "Oops! There was an issue generating your itinerary. Please check your internet connection or try adjusting your preferences and try again."

\* PlanningForm.tsx lines 54-66: what the form does with the outcome
handleSubmit(r) ==
    LET o == generateItineraryFromPreferences(r)
    IN  IF o.ok THEN [shown |-> "itinerary", plan |-> o.val]
        ELSE [shown |-> AlertText, plan |-> Undefined]

---------------------------------------------------------------------------
(* Properties *)

InTrace(stage) == \E i \in 1..Len(trace) : trace[i] = stage
LastStage == IF trace = <<>> THEN "" ELSE trace[Len(trace)]

OptStr(v) == IsNullish(v) \/ IsStr(v)
OptNum(v) == IsNullish(v) \/ IsNum(v)
OptArr(v) == IsNullish(v) \/ IsArr(v)

\* v is an object whose own keys, among keys, hold strings or null
OptStrings(v, keys) == IsObj(v) /\ \A k \in keys : OptStr(Get(v, k))

ConformsDay(d) ==
    /\ OptStrings(d, {"date", "daySummary"})
    /\ OptNum(Get(d, "dayNumber"))
    /\ OptArr(Get(d, "dailyTips"))
    /\ LET w == Get(d, "dailyWeather")
       IN  IsNullish(w) \/ OptStrings(w, WeatherKeys)
    /\ LET a == Get(d, "activities")
       IN  IsNullish(a)
           \/ (IsArr(a) /\ \A i \in 1..Len(a.a) : OptStrings(a.a[i], ActivityKeys))

\* v is an itinerary object with some of its fields left out or null, and
\* every field it has of the type the schema gives it
Conforms(v) ==
    /\ OptStrings(v, StringKeysTop)
    /\ OptNum(Get(v, "duration"))
    /\ OptArr(Get(v, "essentialTravelTips"))
    /\ LET e == Get(v, "emergencyInformation")
       IN  IsNullish(e) \/ (IsObj(e) /\ \A k \in EmergencyKeys : OptArr(Get(e, k)))
    /\ LET d == Get(v, "days")
       IN  IsNullish(d) \/ (IsArr(d) /\ \A i \in 1..Len(d.a) : ConformsDay(d.a[i]))

\* v is an object with a string under every key of keys
AllStrings(v, keys) == IsObj(v) /\ \A k \in keys : IsStr(Get(v, k))

CanonicalDay(d) ==
    /\ AllStrings(d, {"date", "daySummary"})
    /\ IsNum(Get(d, "dayNumber"))
    /\ IsArr(Get(d, "dailyTips"))
    /\ AllStrings(Get(d, "dailyWeather"), WeatherKeys)
    /\ IsArr(Get(d, "activities"))
    /\ \A i \in 1..Len(Get(d, "activities").a) :
          AllStrings(Get(d, "activities").a[i], ActivityKeys)

\* every field of the itinerary present with its type
Canonical(v) ==
    /\ AllStrings(v, StringKeysTop)
    /\ IsNum(Get(v, "duration"))
    /\ IsArr(Get(v, "essentialTravelTips"))
    /\ IsObj(Get(v, "emergencyInformation"))
    /\ \A k \in EmergencyKeys : IsArr(Get(Get(v, "emergencyInformation"), k))
    /\ IsArr(Get(v, "days"))
    /\ \A i \in 1..Len(Get(v, "days").a) : CanonicalDay(Get(v, "days").a[i])

\* C1: once the normalize step has run on a parsed value that is an
\* itinerary object with any of its fields left out or null, it has returned
\* (it did not throw) an itinerary in which every string field is a string,
\* every sequence field a sequence, duration and dayNumber numbers; that
\* itinerary is what the 200 response carries.
C1_NormalizeFillsEveryField ==
    (LastStage = "normalize" /\ Conforms(parsed)) =>
        /\ pc \in {"respond", "done"}
        /\ Canonical(final)
        /\ (pc = "done" => response = JsonResponse(200, final))

C1_Witness ==
    /\ pc = "done"
    /\ parsed = EmptyObj
    /\ Canonical(response.body)
    /\ Get(response.body, "days") = EmptyArr

\* C2: the sanitized text is a fixed point of cleanJsonString: sanitizing
\* it again changes nothing, whatever fences the raw text had.
C2_SanitizeIdempotent ==
    InTrace("sanitize") => cleanJsonString(cleaned) = cleaned

C2_Witness ==
    /\ InTrace("sanitize")
    /\ raw = Opener \o Opener \o <<Doc(LisbonTree)>> \o Closer \o Closer
    /\ cleaned = Opener \o <<Doc(LisbonTree)>>

\* the fields by which a day or an activity of the response is recognised
\* in the output
SameWhere(x, y, keys) ==
    \A k \in keys : Truthy(Get(x, k)) => Get(y, k) = Get(x, k)

SameActivities(x, y) ==
    IsArr(x) =>
        /\ IsArr(y)
        /\ Len(y.a) = Len(x.a)
        /\ \A j \in 1..Len(x.a) : SameWhere(x.a[j], y.a[j], {"name", "cost"})

\* C5: after a normalize step that returned, the output days are as many as
\* the input days and the day at each position is the input day of that
\* position (same dayNumber and date), and so are the activities of each day.
C5_OrderPreserved ==
    (pc = "respond" /\ IsArr(Get(parsed, "days"))) =>
        LET in == Get(parsed, "days").a
            out == Get(final, "days")
        IN  /\ IsArr(out)
            /\ Len(out.a) = Len(in)
            /\ \A i \in 1..Len(in) :
                  /\ SameWhere(in[i], out.a[i], {"dayNumber", "date"})
                  /\ SameActivities(Get(in[i], "activities"),
                                    Get(out.a[i], "activities"))

DayNumbers(days) == [i \in 1..Len(days.a) |-> Get(days.a[i], "dayNumber")]

C5_Witness ==
    /\ pc = "respond"
    /\ IsArr(Get(parsed, "days"))
    /\ DayNumbers(Get(parsed, "days")) = <<Num(3), Num(1), Num(2)>>
    /\ DayNumbers(Get(final, "days")) = <<Num(3), Num(1), Num(2)>>

\* the end-to-end scenario: the structured Lisbon request, answered by the
\* oracle with the Lisbon document inside a json fence
LisbonScenario ==
    /\ pc = "done"
    /\ body = Ret(WithPrefs(LisbonPrefs))
    /\ reply.ok
    /\ raw = Opener \o <<Doc(LisbonTree)>> \o Closer

LisbonCommon ==
    /\ response.status = 200
    /\ Get(response.body, "destination") = Str("Lisbon")
    /\ Get(response.body, "duration") = Num(2)
    /\ IsArr(Get(response.body, "days"))
    /\ Len(Get(response.body, "days").a) = 1
    /\ Get(Get(response.body, "days").a[1], "activities") = EmptyArr

NoJsonIn(text) == \A i \in 1..Len(text) : ~IsDoc(text[i])

\* C7: when the oracle answered with a text that holds no JSON, the parse
\* step is the last step run and the handler answers 500 with the generic
\* error message: no normalize step, no 200 response.
C7_NoJsonIsMalformedPayload ==
    (reply.ok /\ NoJsonIn(reply.text) /\ pc \notin {"sanitize", "parse"}) =>
        /\ pc = "done"
        /\ LastStage = "parse"
        /\ response.status = 500
        /\ response.json
        /\ Get(response.body, "error") = Str("Failed to generate itinerary. Please try again.")
        /\ final = Undefined

C7_Witness ==
    /\ pc = "done"
    /\ reply.ok
    /\ raw = <<PROSE>>
    /\ response.status = 500

Supplies(k) == body.ok /\ IsObj(body.val) /\ k \in DOMAIN body.val.o
Preferences == Get(body.val, "preferences")
NaturalLanguageQuery == Get(body.val, "naturalLanguageQuery")
Validated == pc \notin {"method", "body", "build"} /\ method = "POST" /\ body.ok

OnlyDestinationAndDurationSet ==
    /\ body = Ret(WithPrefs(OnlyDestinationAndDuration))
    /\ prompt # <<>>

Fragments(directive) == {directive[i] : i \in 1..Len(directive)}

Empty(v) == ~Truthy(v) \/ v = EmptyObj \/ v = EmptyArr

\* no discriminant present, or the one present empty
MalformedInput ==
    /\ body.ok
    /\ method = "POST"
    /\ \/ ~Supplies("preferences") /\ ~Supplies("naturalLanguageQuery")
       \/ Supplies("preferences") /\ ~Supplies("naturalLanguageQuery")
            /\ Empty(Preferences)
       \/ Supplies("naturalLanguageQuery") /\ ~Supplies("preferences")
            /\ Empty(NaturalLanguageQuery)

\* C8 as stated: on a malformed input the oracle is never called.
C8_Original == MalformedInput => oracleCalls = 0

\* C9 as stated: a structured request whose preferences object has no
\* destination, or an empty one, gets the 400 response; no directive is
\* built for it and the oracle is not called.
C9_Original ==
    (body.ok /\ method = "POST" /\ IsObj(Preferences)
        /\ ~Truthy(Get(Preferences, "destination"))) =>
        /\ prompt = <<>>
        /\ oracleCalls = 0
        /\ pc = "done" => response = InvalidInputResponse

IsPrefix(t, full) ==
    /\ Len(t) <= Len(full)
    /\ \A i \in 1..Len(t) : t[i] = full[i]

BuildFailed == InTrace("build") /\ BuildDirective(body.val).kind = "throw"
OracleFailed == InTrace("oracle") /\ ~reply.ok
ParseFailed == InTrace("parse") /\ ~JSONparse(cleaned).ok
NormalizeFailed == InTrace("normalize") /\ ~cleanItineraryForFrontend(parsed).ok

\* C10: the stages run are always an initial part of build, oracle,
\* sanitize, parse, normalize, in that order; a stage that failed is the
\* last stage run and the 500 response built from its error is the outcome;
\* a 200 response is given only after all five stages.
C10_StagesInOrderAndShortCircuit ==
    /\ IsPrefix(trace, Stages)
    /\ BuildFailed =>
          /\ pc = "done" /\ LastStage = "build"
          /\ response = CatchResponse(BuildDirective(body.val).val)
    /\ OracleFailed =>
          /\ pc = "done" /\ LastStage = "oracle"
          /\ response = CatchResponse(reply.msg)
          /\ cleaned = <<>> /\ parsed = Undefined /\ final = Undefined
    /\ ParseFailed =>
          /\ pc = "done" /\ LastStage = "parse"
          /\ response = CatchResponse(JSONparse(cleaned).val.s)
          /\ final = Undefined
    /\ NormalizeFailed =>
          /\ pc = "done"
          /\ response = CatchResponse(cleanItineraryForFrontend(parsed).val.s)
    /\ response.status = 200 => trace = Stages

C10_Witness ==
    /\ pc = "done"
    /\ OracleFailed
    /\ trace = <<"build", "oracle">>
    /\ response.status = 500

\* the request passed the method check, the body read, the input branch and
\* the credential check
Accepted ==
    /\ method = "POST"
    /\ body.ok
    /\ BuildDirective(body.val).kind = "prompt"
    /\ apiKey

\* C11: the oracle is called at most once in an invocation; an invocation
\* that has ended called it exactly once if the request was accepted and the
\* credential set, and not at all otherwise; after a failed oracle call, a
\* failed parse or a failed normalize the count is still one.
C11_OracleCalledAtMostOnce ==
    /\ oracleCalls <= 1
    /\ pc = "done" => (oracleCalls = 1 <=> Accepted)
    /\ (OracleFailed \/ ParseFailed \/ NormalizeFailed) =>
          (pc = "done" /\ oracleCalls = 1)

C11_Witness ==
    /\ pc = "done"
    /\ ParseFailed
    /\ oracleCalls = 1
    /\ response.status = 500

\* a failure response of the POST handler
FailureResponse == pc = "done" /\ method = "POST" /\ response.status >= 400

\* C12 as stated: every failure response has a JSON body with a string
\* error and a string details.
C12_Original ==
    FailureResponse =>
        /\ response.json
        /\ IsStr(Get(response.body, "error"))
        /\ IsStr(Get(response.body, "details"))

\* the caller's input is at fault: the body is not JSON, or it takes neither
\* input branch, or building the directive from it throws
CallerInputError ==
    ~body.ok \/ BuildDirective(body.val).kind # "prompt"

\* C13 as stated: a failure caused by the caller's input, a body that is not
\* JSON included, is answered with 400, and a failure of the credential
\* check, the oracle call, the parse or the normalizer with 500.
C13_Original ==
    FailureResponse =>
        /\ CallerInputError => response.status = 400
        /\ ~CallerInputError => response.status = 500

\* C14 as stated: a 200 response is given only after the oracle call and the
\* parse succeeded, is JSON, and carries an itinerary object with every
\* field present, never null and never a value that is not an object.
C14_Original ==
    response.status = 200 =>
        /\ reply.ok
        /\ JSONparse(cleaned).ok
        /\ response.ctype = "application/json"
        /\ IsObj(response.body)
        /\ Canonical(response.body)

\* C15 as stated: when the parsed value is an object, the normalize step
\* does not throw, whatever the types of its fields, and the invocation ends
\* with the 200 response.
C15_Original ==
    (InTrace("normalize") /\ IsObj(parsed)) =>
        /\ cleanItineraryForFrontend(parsed).ok
        /\ pc \in {"respond", "done"}
        /\ pc = "done" => response.status = 200

\* the message of the exception that ended the invocation, "" if none did
Diagnostic ==
    IF ~body.ok THEN body.val.s
    ELSE IF BuildDirective(body.val).kind = "throw" THEN BuildDirective(body.val).val
    ELSE IF OracleFailed THEN reply.msg
    ELSE IF ParseFailed THEN JSONparse(cleaned).val.s
    ELSE IF NormalizeFailed THEN cleanItineraryForFrontend(parsed).val.s
    ELSE ""

GenericError == Str("Failed to generate itinerary. Please try again.")

\* C16: the error field of a JSON failure response is fixed by the status
\* alone: every 500 built from an exception carries the same error text
\* whatever the exception's message, and that message is found in details
\* and nowhere else; the client throws the error text, never the details,
\* and the form shows one fixed alert.
C16_ErrorIndependentOfCause ==
    FailureResponse =>
        /\ handleSubmit(response) = [shown |-> AlertText, plan |-> Undefined]
        /\ ~generateItineraryFromPreferences(response).ok
        /\ response.json =>
              /\ response.status = 500 =>
                    /\ Get(response.body, "error") = GenericError
                    /\ Get(response.body, "details") = Str(Diagnostic)
                    /\ Diagnostic # ""
              /\ response.status = 400 =>
                    /\ response = InvalidInputResponse
                    /\ Diagnostic = ""
              /\ Get(response.body, "error") # Str(Diagnostic)
              /\ generateItineraryFromPreferences(response).val
                   = Get(response.body, "error")

C16_Witness ==
    /\ pc = "done"
    /\ OracleFailed
    /\ reply.msg = "429 Too Many Requests"
    /\ Get(response.body, "details") = Str("429 Too Many Requests")
    /\ generateItineraryFromPreferences(response) = Throw(GenericError.s)

\* C17: with GEMINI_API_KEY not set, an invocation whose request was
\* accepted by the input branch ends with the 500 text response of the
\* credential check, and the oracle is not called: no call is counted, no
\* reply, no stage after build.
C17_NoKeyNoOracle ==
    (~apiKey /\ method = "POST" /\ body.ok
        /\ BuildDirective(body.val).kind = "prompt"
        /\ pc \notin {"method", "body", "build", "key"}) =>
        /\ pc = "done"
        /\ response = TextResponse(500, "Server configuration error: API Key not set.")
        /\ oracleCalls = 0
        /\ reply = NoReply
        /\ trace = <<"build">>

C17_Witness ==
    /\ pc = "done"
    /\ ~apiKey
    /\ body = Ret(WithQuery(Query))
    /\ response.status = 500
    /\ oracleCalls = 0

\* the directive without its last fragment
UserPart(directive) == SubSeq(directive, 1, Len(directive) - 1)

\* C19: every directive built, for a structured request with any fields
\* populated and for a natural-language request alike, is a user-derived
\* part followed by the schema suffix: the suffix is its last fragment, the
\* same constant text for every request, and occurs nowhere before.
C19_FixedSuffix ==
    /\ (Accepted /\ pc \notin {"method", "body", "build"}) => prompt # <<>>
    /\ prompt # <<>> =>
          /\ prompt[Len(prompt)] = SchemaSuffix
          /\ SchemaSuffix \notin Fragments(UserPart(prompt))
          /\ Head(prompt) \in {IntroTrip, IntroQuery}
          /\ Head(prompt) = IntroQuery => UserPart(prompt) = QueryPrompt(NaturalLanguageQuery)
          /\ Head(prompt) = IntroTrip =>
                UserPart(prompt) = PreferencesPrompt(Preferences).val

C19_Witness ==
    /\ pc = "done"
    /\ body = Ret(WithQuery(Query))
    /\ prompt = <<IntroQuery, Query.s, SchemaSuffix>>
    /\ response.status = 200

\* the fragments that open a clause about a preference field
ClauseOpeners(k) ==
    CASE k = "travelStyle" -> {StylePrefers, StyleInfer}
      [] k = "interests" -> {InterestsInclude}
      [] k = "budget" -> {BudgetIs, BudgetInfer}
      [] k = "groupSize" -> {GroupSizeIs}
      [] k = "accommodation" -> {AccommodationIs}
      [] k = "startDate" -> {StartingOn, StartsAround}
      [] k = "specificRequests" -> {SpecificRequestsAre}
      [] OTHER -> {}

HasClause(k) == Fragments(UserPart(prompt)) \cap ClauseOpeners(k) # {}

\* the field holds a value; an empty interests list does not count
Populated(k) ==
    LET v == Get(Preferences, k)
    IN  Truthy(v) /\ (k = "interests" => (IsArr(v) /\ Len(v.a) > 0))

StructuredDirective == body.ok /\ prompt # <<>> /\ Head(prompt) = IntroTrip

\* C20 as stated: the user-derived part has a clause about an optional
\* field exactly when the field is populated.
C20_Original ==
    StructuredDirective =>
        \A k \in OptionalPrefs \cup {"interests"} : HasClause(k) <=> Populated(k)

\* C20, amended: for interests, groupSize, accommodation and
\* specificRequests the user-derived part has a clause exactly when the
\* field is populated; for travelStyle, budget and startDate it always has a
\* clause: the one stating the value when the field is populated, and
\* otherwise the fallback clause (infer a style, estimate a budget range,
\* start around today's date).
C20_ClausePerField ==
    StructuredDirective =>
        LET F == Fragments(UserPart(prompt))
        IN  /\ \A k \in {"interests", "groupSize", "accommodation", "specificRequests"} :
                  HasClause(k) <=> Populated(k)
            /\ StylePrefers \in F <=> Populated("travelStyle")
            /\ StyleInfer \in F <=> ~Populated("travelStyle")
            /\ BudgetIs \in F <=> Populated("budget")
            /\ BudgetInfer \in F <=> ~Populated("budget")
            /\ StartingOn \in F <=> Populated("startDate")
            /\ StartsAround \in F <=> ~Populated("startDate")

C20_Witness ==
    /\ body = Ret(WithPrefs(MkPrefs({"destination", "duration", "groupSize", "startDate"},
                                    EmptyArr)))
    /\ prompt # <<>>
    /\ Fragments(prompt) \cap
         {GroupSizeIs, StartingOn, BudgetInfer, StyleInfer, InterestsInclude}
         = {GroupSizeIs, StartingOn, BudgetInfer, StyleInfer}

\* the response of an invocation run alone on request (m, b), with the
\* credential state key and the oracle's answer rep
Alone(m, b, key, rep) ==
    IF m # "POST" THEN TextResponse(405, "Method Not Allowed")
    ELSE IF ~b.ok THEN CatchResponse(b.val.s)
    ELSE
      LET d == BuildDirective(b.val)
          p == JSONparse(cleanJsonString(rep.text))
          n == cleanItineraryForFrontend(p.val)
      IN  IF d.kind = "invalid" THEN InvalidInputResponse
          ELSE IF d.kind = "throw" THEN CatchResponse(d.val)
          ELSE IF ~key
          THEN TextResponse(500, "Server configuration error: API Key not set.")
          ELSE IF ~rep.ok THEN CatchResponse(rep.msg)
          ELSE IF ~p.ok THEN CatchResponse(p.val.s)
          ELSE IF ~n.ok THEN CatchResponse(n.val.s)
          ELSE JsonResponse(200, n.val)

\* the invocation with locals f has returned what it returns when run alone
AsAlone(f) ==
    f.pc = "done" => f.response = Alone(f.method, f.body, apiKey, f.reply)

\* the step is the event loop's switch between the two invocations
Switched == peer' = Frame /\ Frame' = peer

\* C18: with two invocations interleaved in any way at their awaits, each
\* invocation's response is the one it gives when run alone on its request,
\* the credential state and its oracle reply; a step of one invocation
\* changes no local of the other, and no step changes the credential state.
C18_InvocationsIndependent ==
    /\ [](AsAlone(Frame) /\ (peer # NoPeer => AsAlone(peer)))
    /\ [][(peer' = peer \/ Switched) /\ apiKey' = apiKey]_vars

C18_Witness ==
    /\ pc = "done"
    /\ peer # NoPeer
    /\ peer.pc = "done"
    /\ response.status = 200
    /\ peer.response.status = 500
    /\ peer.reply.msg = "fetch failed"
    /\ body = peer.body

\* the numbers that the strings of digits in the replies stand for
NumeralValue == [s \in {"1", "2", "3"} |-> CASE s = "1" -> 1 [] s = "2" -> 2 [] OTHER -> 3]

NumericLooking(v) == IsStr(v) /\ v.s \in DOMAIN NumeralValue

\* C21 as stated: a duration or dayNumber given as a string of digits comes
\* out of the normalize step as the number it stands for.
C21_Original ==
    pc = "respond" =>
        /\ NumericLooking(Get(parsed, "duration")) =>
              Get(final, "duration") = Num(NumeralValue[Get(parsed, "duration").s])
        /\ IsArr(Get(parsed, "days")) =>
              \A i \in 1..Len(Get(parsed, "days").a) :
                  LET n == Get(Get(parsed, "days").a[i], "dayNumber")
                  IN  NumericLooking(n) =>
                          Get(Get(final, "days").a[i], "dayNumber")
                            = Num(NumeralValue[n.s])

ActivityTypes == {"indoor", "outdoor", "flexible"}

\* the activities of all days of itinerary v
AllActivities(v) ==
    LET days == Get(v, "days")
    IN  IF ~IsArr(days) THEN {}
        ELSE UNION {LET a == Get(days.a[i], "activities")
                    IN  IF IsArr(a) THEN {a.a[j] : j \in 1..Len(a.a)} ELSE {} :
                    i \in 1..Len(days.a)}

\* C22 as stated: every activity of a normalized itinerary has a type that
\* is indoor, outdoor or flexible.
C22_Original ==
    pc = "respond" =>
        \A act \in AllActivities(final) :
            /\ IsStr(Get(act, "type"))
            /\ Get(act, "type").s \in ActivityTypes

\* the parsed value has a destination that can be used
UsableDestination(v) == IsStr(Get(v, "destination")) /\ Get(v, "destination").s # ""

C24_DaysNeitherAddedNorDropped ==
    (pc = "respond" /\ IsObj(parsed)) =>
        /\ IsArr(Get(parsed, "days")) =>
              /\ IsArr(Get(final, "days"))
              /\ Len(Get(final, "days").a) = Len(Get(parsed, "days").a)
        /\ Get(final, "duration") = Or(Get(parsed, "duration"), Num(0))

C24_Witness ==
    /\ pc = "respond"
    /\ Get(parsed, "duration") = Num(2)
    /\ Len(Get(parsed, "days").a) = 3
    /\ Get(final, "duration") = Num(2)
    /\ Len(Get(final, "days").a) = 3

\* an opening fence without a language tag
BareOpener == <<FENCE, NL>>

\* the length of the opening fence, tagged or not, that text has at i; 0 if
\* it has none there
OpenerLenAt(text, i) ==
    IF OccursAt(text, Opener, i) THEN Len(Opener)
    ELSE IF OccursAt(text, BareOpener, i) THEN Len(BareOpener)
    ELSE 0

\* where a fenced block, with or without a tag, starts in text
FencedStarts(text) ==
    {i \in 1..Len(text) :
        /\ OpenerLenAt(text, i) > 0
        /\ \E j \in (i + OpenerLenAt(text, i))..Len(text) : OccursAt(text, Closer, j)}

\* the content of the first fenced block of text
InnerOfFirstFence(text) ==
    LET i == Least(FencedStarts(text))
        from == i + OpenerLenAt(text, i)
        j == Least({k \in from..Len(text) : OccursAt(text, Closer, k)})
    IN  SubSeq(text, from, j - 1)

\* C25 as stated: the sanitized text is the content of the first fenced
\* block of the raw text, whether its opening fence has a language tag or
\* not, and the raw text itself when it has no fenced block.
C25_Original ==
    InTrace("sanitize") =>
        cleaned = IF FencedStarts(raw) = {} THEN raw ELSE InnerOfFirstFence(raw)

\* C26 as stated: every response that is not 2xx has a body the client can
\* parse as JSON, so the client rejects with the error text of the body or
\* with the HTTP error fallback.
C26_Original ==
    (pc = "done" /\ ~ResponseOk(response)) =>
        /\ responseJson(response).ok
        /\ generateItineraryFromPreferences(response).val
             \in {Get(response.body, "error"), HttpError(response)}

\* C30: an invocation whose method is not POST takes one step, the return
\* of the 405 response: the body is not looked at, no directive is built,
\* the credential check and the oracle call do not happen, and no stage runs.
C30_MethodNotAllowed ==
    /\ [](method # "POST" =>
            /\ pc \in {"method", "done"}
            /\ pc = "done" => response = TextResponse(405, "Method Not Allowed")
            /\ trace = <<>> /\ prompt = <<>> /\ oracleCalls = 0 /\ reply = NoReply)
    /\ [][method # "POST" => (pc = "method" /\ pc' = "done")]_vars

C30_Witness ==
    /\ pc = "done"
    /\ method = "GET"
    /\ body = Ret(WithPrefs(LisbonPrefs))
    /\ apiKey
    /\ response.status = 405

---------------------------------------------------------------------------
(* The two components that call the handler: NaturalLanguageInput          *)
(* (src/components/ItineraryResults.tsx lines 480-578) and PlanningForm    *)
(* (src/components/PlanningForm.tsx lines 15-67).  ui.chat and ui.form     *)
(* hold their React state, the requests they have in flight, and counts of *)
(* what they did.  A submit event can arrive in any state: the handlers    *)
(* are taken on their own, without the disabled attributes of the inputs   *)
(* and buttons.  A typed text is a sequence of words and blanks.           *)
(* The two components are two views of the application (PlanningForm has  *)
(* the onSwitchToNaturalLanguage prop to go to the other one), so one of   *)
(* them is mounted: ui.mounted.                                            *)

MaxSubmits == 3

SP == " "

\* String.prototype.trim
RECURSIVE trim(_)
trim(text) ==
    IF text = <<>> THEN text
    ELSE IF Head(text) = SP THEN trim(Tail(text))
    ELSE IF text[Len(text)] = SP THEN trim(SubSeq(text, 1, Len(text) - 1))
    ELSE text

\* the string that a typed text is
RECURSIVE TextStr(_)
TextStr(text) == IF text = <<>> THEN "" ELSE Head(text) \o TextStr(Tail(text))

\* what the user types in the chat input and in the destination field
QueryTexts == {<<>>, <<SP, SP>>, <<"Plan", SP, "Rome">>, <<SP, "Rome", SP>>}
DestinationTexts == {<<>>, <<SP>>, <<"Lisbon">>}

\* the oracle's answers to the requests of the components
UiReplies ==
    {[ok |-> TRUE, text |-> Opener \o <<Doc(LisbonTree)>> \o Closer, msg |-> ""],
     [ok |-> TRUE, text |-> <<Doc(Null)>>, msg |-> ""],
     [ok |-> FALSE, text |-> <<>>, msg |-> "fetch failed"]}

\* how the fetch of a request with body b can settle: rejected, or resolved
\* with a Response of the handler
FetchOutcomes(b) ==
    {[resolved |-> FALSE, r |-> NoResponse]}
    \cup {[resolved |-> TRUE, r |-> Alone("POST", Ret(b), key, rep)] :
            key \in BOOLEAN, rep \in UiReplies}

\* the outcome of generateItineraryFromPreferences for a settled fetch
ClientOutcome(o) ==
    IF o.resolved THEN generateItineraryFromPreferences(o.r)
    ELSE Throw("Failed to fetch")

\* geminiService.ts line 10: body: JSON.stringify({ preferences })
ClientRequest(arg) == WithPrefs(arg)

ChatMessage(type, message) == [type |-> type, message |-> message]

ProcessingText == "Processing your request and generating the itinerary..."
ApologyText == "I apologize, but I encountered an error while creating your itinerary. Please try again with a different query, or try the Detailed Form Planning."
ApologyPushedText == "I apologize, but I encountered an error. Please try again or switch to form planning."

\* lines 540 and 546: the two texts of the success message
PerfectText(itinerary) ==
    "Perfect! I've created a " \o Interp(Get(itinerary, "duration"))
    \o "-day itinerary for " \o Interp(Get(itinerary, "destination"))
    \o ". Your personalized travel plan is ready!"
PerfectPushedText(itinerary) ==
    "Perfect! Your " \o Interp(Get(itinerary, "duration"))
    \o "-day itinerary for " \o Interp(Get(itinerary, "destination"))
    \o " is ready!"

\* findLastIndex(msg => msg.type === 'ai'), 0 when there is none
LastAiIndex(history) ==
    LET ai == {i \in 1..Len(history) : history[i].type = "ai"}
    IN  IF ai = {} THEN 0 ELSE CHOOSE i \in ai : \A j \in ai : j <= i

\* the updaters of lines 534-551 and 557-574: the last ai message replaced
\* by text, or pushedText appended when the history has no ai message
ReplaceLastAi(history, text, pushedText) ==
    LET i == LastAiIndex(history)
    IN  IF i = 0 THEN Append(history, ChatMessage("ai", pushedText))
        ELSE [history EXCEPT ![i] = ChatMessage("ai", text)]

InitialChat ==
    [query |-> <<>>, isProcessing |-> FALSE, chatHistory |-> <<>>,
     pending |-> <<>>, generated |-> <<>>, crashed |-> FALSE,
     lastSubmit |-> "none", submits |-> 0, accepted |-> 0, sent |-> 0, succeeded |-> 0, failed |-> 0]

InitialForm ==
    [destination |-> <<>>, isGenerating |-> FALSE, pending |-> <<>>,
     generated |-> <<>>, alerts |-> 0,
     submits |-> 0, sent |-> 0, succeeded |-> 0, failed |-> 0]

\* onChange of the chat input, handleExampleClick
SetQuery ==
    /\ ui # NoUi
    /\ ui.mounted = "chat"
    /\ \E q \in QueryTexts :
          /\ q # ui.chat.query
          /\ ui' = [ui EXCEPT !.chat.query = q]
    /\ UNCHANGED <<pc, method, body, apiKey, prompt, reply, raw, cleaned, parsed,
                   final, response, trace, oracleCalls, peer>>

\* ChatSubmit without the test of isProcessing
ChatSubmit_NoBusyCheck ==
    /\ ui # NoUi
    /\ ui.mounted = "chat"
    /\ ui.chat.submits < MaxSubmits
    /\ LET c == ui.chat
           currentQuery == trim(c.query)
       IN  IF currentQuery = <<>>
           THEN ui' = [ui EXCEPT !.chat.submits = @ + 1,
                                 !.chat.lastSubmit = IF c.isProcessing
                                                     THEN "ignored while processing"
                                                     ELSE "ignored as blank"]
           ELSE ui' = [ui EXCEPT !.chat =
                    [c EXCEPT
                       !.submits = @ + 1,
                       !.lastSubmit = "accepted",
                       !.accepted = @ + 1,
                       !.isProcessing = TRUE,
                       !.query = <<>>,
                       !.chatHistory = @ \o <<ChatMessage("user", TextStr(currentQuery)),
                                              ChatMessage("ai", ProcessingText)>>,
                       !.sent = @ + 1,
                       !.pending = Append(@, ClientRequest(
                           Obj([naturalLanguageQuery |-> Str(TextStr(currentQuery))])))]]
    /\ UNCHANGED <<pc, method, body, apiKey, prompt, reply, raw, cleaned, parsed,
                   final, response, trace, oracleCalls, peer>>

\* NaturalLanguageInput.handleSubmit, lines 500-520: up to the await
ChatSubmit ==
    /\ ui # NoUi
    /\ ui.mounted = "chat"
    /\ ui.chat.submits < MaxSubmits
    /\ LET c == ui.chat
           currentQuery == trim(c.query)
       IN  IF currentQuery = <<>> \/ c.isProcessing
           THEN ui' = [ui EXCEPT !.chat.submits = @ + 1,
                                 !.chat.lastSubmit = IF c.isProcessing
                                                     THEN "ignored while processing"
                                                     ELSE "ignored as blank"]
           ELSE ui' = [ui EXCEPT !.chat =
                    [c EXCEPT
                       !.submits = @ + 1,
                       !.lastSubmit = "accepted",
                       !.accepted = @ + 1,
                       !.isProcessing = TRUE,
                       !.query = <<>>,
                       !.chatHistory = @ \o <<ChatMessage("user", TextStr(currentQuery)),
                                              ChatMessage("ai", ProcessingText)>>,
                       !.sent = @ + 1,
                       !.pending = Append(@, ClientRequest(
                           Obj([naturalLanguageQuery |-> Str(TextStr(currentQuery))])))]]
    /\ UNCHANGED <<pc, method, body, apiKey, prompt, reply, raw, cleaned, parsed,
                   final, response, trace, oracleCalls, peer>>

\* the chat state after the request at position i of pending settled with
\* outcome o: lines 521-577, from the await to the end of finally.  An
\* updater that throws (the itinerary is null, so reading its duration
\* throws) leaves chatHistory as it was: React catches the error where the
\* updater is called and throws it again when it renders the component.
ChatSettled(c, i, o) ==
    LET res == ClientOutcome(o)
        rest == [j \in 1..(Len(c.pending) - 1) |->
                    IF j < i THEN c.pending[j] ELSE c.pending[j + 1]]
    IN  IF res.ok
        THEN [c EXCEPT
                !.pending = rest,
                !.chatHistory =
                    IF IsNullish(res.val) THEN @
                    ELSE ReplaceLastAi(@, PerfectText(res.val), PerfectPushedText(res.val)),
                !.crashed = @ \/ IsNullish(res.val),
                !.generated = Append(@, res.val),
                !.succeeded = @ + 1,
                !.isProcessing = FALSE]
        ELSE [c EXCEPT
                !.pending = rest,
                !.chatHistory = ReplaceLastAi(@, ApologyText, ApologyPushedText),
                !.failed = @ + 1,
                !.isProcessing = FALSE]

ChatSettle ==
    /\ ui # NoUi
    /\ ui.mounted = "chat"
    /\ \E i \in 1..Len(ui.chat.pending) :
          \E o \in FetchOutcomes(ui.chat.pending[i]) :
              ui' = [ui EXCEPT !.chat = ChatSettled(ui.chat, i, o)]
    /\ UNCHANGED <<pc, method, body, apiKey, prompt, reply, raw, cleaned, parsed,
                   final, response, trace, oracleCalls, peer>>

\* PlanningForm.tsx lines 21-30: the preferences state with destination d
FormPreferences(d) ==
    Obj([destination |-> Str(TextStr(d)), duration |-> Num(3),
         budget |-> Str("mid-range"), interests |-> EmptyArr,
         travelStyle |-> Str("moderate"), groupSize |-> Num(2),
         accommodation |-> Str("hotel")])

\* onChange of the destination field
SetDestination ==
    /\ ui # NoUi
    /\ ui.mounted = "form"
    /\ \E d \in DestinationTexts :
          /\ d # ui.form.destination
          /\ ui' = [ui EXCEPT !.form.destination = d]
    /\ UNCHANGED <<pc, method, body, apiKey, prompt, reply, raw, cleaned, parsed,
                   final, response, trace, oracleCalls, peer>>

\* PlanningForm.handleSubmit, lines 47-59: up to the await
FormSubmit ==
    /\ ui # NoUi
    /\ ui.mounted = "form"
    /\ ui.form.submits < MaxSubmits
    /\ LET f == ui.form
       IN  IF trim(f.destination) = <<>>
           THEN ui' = [ui EXCEPT !.form.submits = @ + 1, !.form.alerts = @ + 1]
           ELSE ui' = [ui EXCEPT !.form =
                    [f EXCEPT
                       !.submits = @ + 1,
                       !.isGenerating = TRUE,
                       !.sent = @ + 1,
                       !.pending = Append(@, ClientRequest(FormPreferences(f.destination)))]]
    /\ UNCHANGED <<pc, method, body, apiKey, prompt, reply, raw, cleaned, parsed,
                   final, response, trace, oracleCalls, peer>>

\* FormSettled without the finally block: isGenerating is reset on success only
FormSettled_NoFinally(f, i, o) ==
    LET res == ClientOutcome(o)
        rest == [j \in 1..(Len(f.pending) - 1) |->
                    IF j < i THEN f.pending[j] ELSE f.pending[j + 1]]
    IN  IF res.ok
        THEN [f EXCEPT
                !.pending = rest,
                !.generated = Append(@, res.val),
                !.succeeded = @ + 1,
                !.isGenerating = FALSE]
        ELSE [f EXCEPT
                !.pending = rest,
                !.alerts = @ + 1,
                !.failed = @ + 1]

\* the form state after the request at position i of pending settled with
\* outcome o: lines 59-66
FormSettled(f, i, o) ==
    LET res == ClientOutcome(o)
        rest == [j \in 1..(Len(f.pending) - 1) |->
                    IF j < i THEN f.pending[j] ELSE f.pending[j + 1]]
    IN  IF res.ok
        THEN [f EXCEPT
                !.pending = rest,
                !.generated = Append(@, res.val),
                !.succeeded = @ + 1,
                !.isGenerating = FALSE]
        ELSE [f EXCEPT
                !.pending = rest,
                !.alerts = @ + 1,
                !.failed = @ + 1,
                !.isGenerating = FALSE]

FormSettle ==
    /\ ui # NoUi
    /\ ui.mounted = "form"
    /\ \E i \in 1..Len(ui.form.pending) :
          \E o \in FetchOutcomes(ui.form.pending[i]) :
              ui' = [ui EXCEPT !.form = FormSettled(ui.form, i, o)]
    /\ UNCHANGED <<pc, method, body, apiKey, prompt, reply, raw, cleaned, parsed,
                   final, response, trace, oracleCalls, peer>>

InitUi ==
    /\ pc = "method"
    /\ method = "POST"
    /\ body = Ret(EmptyObj)
    /\ apiKey = TRUE
    /\ prompt = <<>>
    /\ reply = NoReply
    /\ raw = <<>>
    /\ cleaned = <<>>
    /\ parsed = Undefined
    /\ final = Undefined
    /\ response = NoResponse
    /\ trace = <<>>
    /\ oracleCalls = 0
    /\ peer = NoPeer
    /\ ui \in {[mounted |-> m, chat |-> InitialChat, form |-> InitialForm] :
                m \in {"chat", "form"}}

NextUi ==
    \/ SetQuery
    \/ ChatSubmit
    \/ ChatSettle
    \/ SetDestination
    \/ FormSubmit
    \/ FormSettle

\* the events of the two components in any order: typing, submit events
\* and the settling of a request in flight
SpecUi == InitUi /\ [][NextUi]_vars

Chat == ui.chat
Form == ui.form

\* the step is a submit event of the chat
ChatSubmitStep == ui'.chat.submits = ui.chat.submits + 1

\* the step is the settling of a request of the chat, of the form
ChatSettleStep ==
    ui'.chat.succeeded + ui'.chat.failed = ui.chat.succeeded + ui.chat.failed + 1
FormSettleStep ==
    ui'.form.succeeded + ui'.form.failed = ui.form.succeeded + ui.form.failed + 1

\* C27: the chat never has more than one request in flight, and has one
\* exactly while isProcessing is true; a submit that finds isProcessing true
\* or the query blank changes nothing of the chat state (but the count of
\* submit events and the note of what the last one did) and sends nothing.
C27_OneRequestInFlight ==
    /\ [](/\ Len(Chat.pending) <= 1
          /\ Chat.isProcessing <=> Len(Chat.pending) = 1
          /\ Chat.sent = Chat.accepted)
    /\ [][(ChatSubmitStep /\ (trim(Chat.query) = <<>> \/ Chat.isProcessing)) =>
            ui'.chat = [Chat EXCEPT !.submits = @ + 1,
                                    !.lastSubmit = ui'.chat.lastSubmit]]_vars

C27_Witness ==
    /\ Chat.lastSubmit = "ignored while processing"
    /\ trim(Chat.query) # <<>>
    /\ Chat.isProcessing
    /\ Len(Chat.pending) = 1
    /\ Chat.sent = 1

\* C28: the step in which a request of the chat settles leaves isProcessing
\* false and the step in which a request of the form settles leaves
\* isGenerating false, whether the request succeeded or failed; that step
\* calls onItineraryGenerated once, with the itinerary, on success and not
\* at all on failure; a component is busy only while it has a request in
\* flight, never after its requests have all settled.
C28_BusyStateIsLeft ==
    /\ [][ChatSettleStep =>
            /\ ~ui'.chat.isProcessing
            /\ Len(ui'.chat.generated) - Len(Chat.generated)
                 = ui'.chat.succeeded - Chat.succeeded]_vars
    /\ [][FormSettleStep =>
            /\ ~ui'.form.isGenerating
            /\ Len(ui'.form.generated) - Len(Form.generated)
                 = ui'.form.succeeded - Form.succeeded]_vars
    /\ [](/\ Len(Chat.generated) = Chat.succeeded
          /\ Len(Form.generated) = Form.succeeded
          /\ Chat.isProcessing => Chat.pending # <<>>
          /\ Form.isGenerating => Form.pending # <<>>)

C28_Witness ==
    /\ ui.mounted = "form"
    /\ Form.failed = 1
    /\ Form.succeeded = 1
    /\ ~Form.isGenerating
    /\ Form.pending = <<>>
    /\ Len(Form.generated) = 1
    /\ Form.alerts = 1

\* the history is pairs of a user message and an ai message
Alternating(history) ==
    \A i \in 1..Len(history) :
        history[i].type = (IF i % 2 = 1 THEN "user" ELSE "ai")

Placeholders(history) ==
    {i \in 1..Len(history) : history[i] = ChatMessage("ai", ProcessingText)}

\* C29 as stated: the history has two messages per accepted submit, a user
\* message and then an ai message; while a request is in flight the last
\* message is its placeholder, and once it has settled no placeholder is
\* left: each was replaced by the success or the apology message.
C29_Original ==
    ui.mounted = "chat" =>
        /\ Len(Chat.chatHistory) = 2 * Chat.accepted
        /\ Alternating(Chat.chatHistory)
        /\ Placeholders(Chat.chatHistory)
             = (IF Chat.pending = <<>> THEN {} ELSE {Len(Chat.chatHistory)})

====
